---------------------------- MODULE Spec2Model ----------------------------
(***************************************************************************)
(* Verification model of two concurrency-safe helpers of btcd:             *)
(*                                                                         *)
(*   - connmgr.DynamicBanScore (src/connmgr/dynamicbanscore.go): a ban     *)
(*     score with a persistent uint32 part and a float64 part that decays  *)
(*     with a half-life of 60 s, guarded by one sync.Mutex;                *)
(*   - txscript.SigCache (src/unnamed/part_001): a bounded map from a      *)
(*     signature hash to (signature, public key) with random eviction,     *)
(*     guarded by one sync.RWMutex.                                        *)
(*                                                                         *)
(* Three specifications share the variables:                               *)
(*   Spec      the unexported increase/int and Reset called one after the  *)
(*             other with explicit times, as the package's tests do;       *)
(*   SpecLock  goroutines calling the exported Int, Increase, Reset and    *)
(*             String, one mutex step at a time;                           *)
(*   SpecSig   goroutines calling SigCache.Exists and SigCache.Add, one    *)
(*             lock step at a time.                                        *)
(*                                                                         *)
(* Numbers.  TLC's integers are 32-bit signed, so a uint32 and the float64 *)
(* transient are held as little-endian sequences of base-2^15 digits       *)
(* without leading zero digits (two equal numbers are equal sequences).    *)
(* The float64 transient is held in fixed point with 60 fractional bits    *)
(* (four digits): sums of uint32 values are exact, as they are in float64  *)
(* below 2^53, and a product with a decay factor is truncated at 2^-60,    *)
(* which is finer than float64's 2^-53 relative rounding for every value   *)
(* the score can hold (0 or >= 1).                                         *)
(***************************************************************************)
EXTENDS Integers, Sequences, FiniteSets, TLC

(***************************************************************************)
(* Natural numbers as digit sequences.                                     *)
(***************************************************************************)
Base == 2^15

RECURSIVE NatOf(_)
NatOf(i) == IF i = 0 THEN <<>> ELSE <<i % Base>> \o NatOf(i \div Base)

Digit(a, i) == IF i >= 1 /\ i <= Len(a) THEN a[i] ELSE 0

RECURSIVE Norm(_)
Norm(a) ==
    IF a = <<>> THEN a
    ELSE IF a[Len(a)] = 0 THEN Norm(SubSeq(a, 1, Len(a) - 1)) ELSE a

RECURSIVE AddFrom(_, _, _, _)
AddFrom(a, b, i, c) ==
    IF i > Len(a) /\ i > Len(b)
    THEN (IF c = 0 THEN <<>> ELSE <<c>>)
    ELSE LET s == Digit(a, i) + Digit(b, i) + c
         IN  <<s % Base>> \o AddFrom(a, b, i + 1, s \div Base)

NAdd(a, b) == AddFrom(a, b, 1, 0)

RECURSIVE ScaleFrom(_, _, _, _)
ScaleFrom(a, d, i, c) ==
    IF i > Len(a)
    THEN (IF c = 0 THEN <<>> ELSE <<c>>)
    ELSE LET s == a[i] * d + c
         IN  <<s % Base>> \o ScaleFrom(a, d, i + 1, s \div Base)

NScale(a, d) == IF d = 0 THEN <<>> ELSE ScaleFrom(a, d, 1, 0)

ShiftDigits(a, n) == IF a = <<>> THEN a ELSE [i \in 1..n |-> 0] \o a

\* The inner product is bound by a set constructor so that it is a value
\* before the addition starts (TLC passes operator arguments unevaluated).
RECURSIVE MulRec(_, _)
MulRec(a, b) ==
    IF Len(a) = 1 THEN NScale(b, a[1])
    ELSE CHOOSE r \in { NAdd(NScale(b, a[1]), <<0>> \o m) :
                            m \in {MulRec(Tail(a), b)} } : TRUE

NMul(a, b) == IF a = <<>> \/ b = <<>> THEN <<>> ELSE MulRec(a, b)

\* floor(a / 2^n)
NShr(a, n) ==
    LET q == n \div 15
        k == n % 15
        d == IF q >= Len(a) THEN <<>> ELSE SubSeq(a, q + 1, Len(a))
    IN  Norm([i \in 1..Len(d) |->
                (d[i] \div 2^k) + (Digit(d, i + 1) % 2^k) * 2^(15 - k)])

NLess(a, b) ==
    IF Len(a) # Len(b) THEN Len(a) < Len(b)
    ELSE \E i \in 1..Len(a) :
            /\ a[i] < b[i]
            /\ \A j \in (i + 1)..Len(a) : a[j] = b[j]

NLeq(a, b) == ~NLess(b, a)

Zero == <<>>

(***************************************************************************)
(* uint32: a number below 2^32; += wraps modulo 2^32.                      *)
(***************************************************************************)
MaxUint32 == <<Base - 1, Base - 1, 3>>

IsUint32(a) == NLeq(a, MaxUint32)

Low32(a) == Norm(<<Digit(a, 1), Digit(a, 2), Digit(a, 3) % 4>>)

U32Add(a, b) == Low32(NAdd(a, b))

(***************************************************************************)
(* float64 in fixed point: the value v is held as floor(v * 2^60).         *)
(***************************************************************************)
One == <<0, 0, 0, 0, 1>>

FracDigits == Len(One) - 1

FracBits == 15 * FracDigits

\* float64(u) of a uint32 u: exact.
Float64(u) == ShiftDigits(u, FracDigits)

\* The integer part of a float64 >= 0 (Go truncates toward zero).
Floor(f) == IF Len(f) <= FracDigits THEN <<>> ELSE SubSeq(f, FracDigits + 1, Len(f))

(***************************************************************************)
(* math.Exp(-1.0 * float64(t) * lambda) with lambda = ln 2 / Halflife, for *)
(* t >= 0: the factor 2^(-t/60) = 2^(-(t mod 60)/60) * 2^(-(t div 60)).    *)
(* Pow2Frac[r + 1] is floor(2^60 * 2^(-r/60)) for r in 0..59; a factor is  *)
(* the pair of that mantissa m and the binary exponent q, of value         *)
(* m * 2^(-60 - q).                                                        *)
(***************************************************************************)
Halflife == 60

Lifetime == 1800

precomputedLen == 64

Pow2Frac ==
    << 
       <<0, 0, 0, 0, 1>>, <<17903, 8627, 20559, 32391>>, <<27575, 27733, 18934, 32019>>,
       <<5959, 22532, 26267, 31651>>, <<7863, 13561, 8181, 31288>>, <<8667, 4115, 28622, 30928>>,
       <<2310, 6059, 20482, 30573>>, <<29208, 186, 14976, 30222>>, <<5764, 27732, 10567, 29875>>,
       <<13880, 19811, 5739, 29532>>, <<5283, 20161, 31758, 29192>>, <<5751, 14735, 21605, 28857>>,
       <<4112, 23521, 6581, 28526>>, <<21913, 28591, 18005, 28198>>, <<8056, 533, 21677, 27874>>,
       <<22191, 23251, 16178, 27554>>, <<24087, 25633, 110, 27238>>, <<28351, 4799, 4857, 26925>>,
       <<7864, 20051, 29049, 26615>>, <<11009, 23046, 5799, 26310>>, <<7745, 15726, 32074, 26007>>,
       <<28510, 11699, 8248, 25709>>, <<13312, 30464, 31318, 25413>>, <<1101, 26156, 1690, 25122>>,
       <<11829, 12974, 16391, 24833>>, <<22515, 26831, 8622, 24548>>, <<12860, 21530, 9905, 24266>>,
       <<23545, 27147, 19006, 23987>>, <<6729, 13571, 1939, 23712>>, <<2218, 16240, 23034, 23439>>,
       <<26184, 32571, 15564, 23170>>, <<9819, 16753, 11121, 22904>>, <<27305, 5663, 8540, 22641>>,
       <<4139, 15481, 6670, 22381>>, <<30437, 3881, 4375, 22124>>, <<12030, 28908, 529, 21870>>,
       <<13858, 14675, 26791, 21618>>, <<28975, 8654, 16525, 21370>>, <<3878, 13031, 1413, 21125>>,
       <<846, 12720, 13150, 20882>>, <<17777, 3442, 17907, 20642>>, <<2030, 19852, 14634, 20405>>,
       <<5232, 32643, 2295, 20171>>, <<221, 9553, 12634, 19939>>, <<28422, 9182, 11868, 19710>>,
       <<2710, 12727, 31764, 19483>>, <<31094, 17896, 5796, 19260>>, <<29670, 1822, 31290, 19038>>,
       <<14923, 15078, 8973, 18820>>, <<8082, 13609, 3426, 18604>>, <<24555, 18390, 13703, 18390>>,
       <<31840, 12989, 6102, 18179>>, <<21672, 5014, 12467, 17970>>, <<14707, 22073, 31884, 17763>>,
       <<12819, 9478, 30684, 17559>>, <<12645, 22905, 7973, 17358>>, <<30330, 27883, 28406, 17158>>,
       <<22099, 27011, 25575, 16961>>, <<11481, 23373, 31386, 16766>>, <<13289, 16771, 12219, 16574>>
    >>

Exp(t) == [m |-> Pow2Frac[(t % Halflife) + 1], q |-> t \div Halflife]

\* init(): one factor per second for the first precomputedLen seconds.
precomputedFactor == [i \in 0..(precomputedLen - 1) |-> Exp(i)]

\* decayFactor(t): the table below precomputedLen, the formula from there on.
\* A negative t indexes the array out of range (a run-time panic in Go, an
\* application outside the function's domain here).
decayFactor(t) == IF t < precomputedLen THEN precomputedFactor[t] ELSE Exp(t)

\* The float64 product f * factor.
FMul(f, factor) == NShr(NMul(factor.m, f), FracBits + factor.q)


(***************************************************************************)
(* State.                                                                  *)
(***************************************************************************)
VARIABLES
    lastUnix,    \* DynamicBanScore.lastUnix   int64, seconds
    transient,   \* DynamicBanScore.transient  float64
    persistent,  \* DynamicBanScore.persistent uint32
    conv,        \* what this build's uint32(f) yields for f >= 2^32
    hist,        \* Spec: the increase and Reset calls made so far, in order
    last,        \* Spec: the most recent call, its arguments and its result
    mtx,         \* DynamicBanScore.mtx: "unlocked", or the goroutine that locked it
    pc,          \* SpecLock: where each goroutine is in its exported call
    call,        \* SpecLock: the exported method each goroutine called, its arguments
    caller,      \* SpecLock: "String" while Int runs as String's argument
    ret,         \* SpecLock: what each goroutine's last Int or Increase returned
    started,     \* SpecLock: exported calls started so far
    validSigs,   \* SigCache.validSigs: sigHash -> sigCacheEntry
    maxEntries,  \* SigCache.maxEntries
    writer,      \* SigCache.RWMutex: "none", or the goroutine holding Lock
    readers,     \* SigCache.RWMutex: the goroutines holding RLock
    spc,         \* SpecSig: where each goroutine is in Exists or Add
    sarg,        \* SpecSig: the arguments of each goroutine's call
    entry,       \* SpecSig: Exists' locals entry, ok
    sret,        \* SpecSig: what each goroutine's last Exists returned
    lastAdd      \* SpecSig: the Add that ran last, and the sigHash it evicted

scoreVars == <<lastUnix, transient, persistent>>

seqVars == <<hist, last>>

lockVars == <<mtx, pc, call, caller, ret, started>>

sigVars ==
    <<validSigs, maxEntries, writer, readers, spc, sarg, entry, sret, lastAdd>>

vars ==
    <<lastUnix, transient, persistent, conv, hist, last,
      mtx, pc, call, caller, ret, started,
      validSigs, maxEntries, writer, readers, spc, sarg, entry, sret, lastAdd>>

(***************************************************************************)
(* Bounds and inputs.                                                      *)
(***************************************************************************)
\* Spec: increase and Reset calls per run (reads are not limited).
MaxCalls == 2

\* (persistent, transient) arguments of increase.
Deltas ==
    { <<NatOf(100), NatOf(50)>>, <<Zero, MaxUint32>>, <<NatOf(100), Zero>>,
      <<MaxUint32, NatOf(1)>> }

\* Times of a call, as offsets in seconds from lastUnix.
IncOffsets == {-1, Halflife, Lifetime + 1}

ReadOffsets ==
    {-1, 0, Halflife \div 2, Halflife, precomputedLen - 1, precomputedLen,
     7 * Halflife, Lifetime, Lifetime + 1}

\* SpecLock: the goroutines sharing one score, the exported calls per run,
\* and what time.Now() may return, as offsets in seconds from lastUnix.
Goroutines == {"g1", "g2"}

MaxStarted == 3

NowOffsets == {Halflife, Lifetime + 1}

\* SpecSig: the largest capacity NewSigCache is called with, and the hashes,
\* signatures and public keys the callers use.
MaxCapacity == 2

SigHashes == {"h1", "h2"}

SigKeyPairs ==
    {[sig |-> "s1", pubKey |-> "k1"], [sig |-> "s2", pubKey |-> "k1"],
     [sig |-> "s1", pubKey |-> "k2"]}

(***************************************************************************)
(* DynamicBanScore.                                                        *)
(***************************************************************************)
\* uint32(f).  For f >= 2^32 the Go specification leaves the result to the
\* implementation: amd64 keeps the low 32 bits of the truncated value, arm64
\* saturates.  conv is fixed per build.
Uint32(f) ==
    LET i == Floor(f)
    IN  IF IsUint32(i) THEN i
        ELSE IF conv = "wrap" THEN Low32(i) ELSE MaxUint32

\* Mutants of int: the decay left out; the Lifetime cut-off made inclusive.
int_NoDecay(t) ==
    LET dt == t - lastUnix
    IN  IF NLess(transient, One) \/ dt < 0 \/ Lifetime < dt
        THEN persistent
        ELSE U32Add(persistent, Uint32(transient))

int_InclusiveLifetime(t) ==
    LET dt == t - lastUnix
    IN  IF NLess(transient, One) \/ dt < 0 \/ Lifetime <= dt
        THEN persistent
        ELSE U32Add(persistent, Uint32(FMul(transient, decayFactor(dt))))

\* int(t): the score as of time t.
int(t) ==
    LET dt == t - lastUnix
    IN  IF NLess(transient, One) \/ dt < 0 \/ Lifetime < dt
        THEN persistent
        ELSE U32Add(persistent, Uint32(FMul(transient, decayFactor(dt))))

\* Mutant of intCallsDecay: a time before lastUnix is not excluded.
intCallsDecay_NoNegativeCheck(t) ==
    ~(NLess(transient, One) \/ Lifetime < t - lastUnix)

\* int(t) calls decayFactor(t - lastUnix): none of the three conditions of
\* its early return holds.
intCallsDecay(t) ==
    ~(NLess(transient, One) \/ t - lastUnix < 0 \/ Lifetime < t - lastUnix)

\* increase(_, tr, t) calls decayFactor(t - lastUnix): the branch
\* s.transient > 1 && dt > 0 of a call with tr > 0 and dt <= Lifetime.
increaseCallsDecay(tr, t) ==
    /\ tr # Zero
    /\ ~(Lifetime < t - lastUnix)
    /\ NLess(One, transient) /\ t - lastUnix > 0

\* Mutant of increase: lastUnix is set also when tr = 0.
increase_AlwaysStamps(p, tr, t) ==
    LET tu == t
        dt == tu - lastUnix
        decayed ==
            IF Lifetime < dt THEN Zero
            ELSE IF NLess(One, transient) /\ dt > 0
                 THEN FMul(transient, decayFactor(dt))
                 ELSE transient
    IN  /\ persistent' = U32Add(persistent, p)
        /\ lastUnix' = tu
        /\ IF tr # Zero
           THEN transient' = NAdd(decayed, Float64(tr))
           ELSE UNCHANGED transient

\* Mutant of increase: a transient older than Lifetime is kept and added to.
increase_KeepsStale(p, tr, t) ==
    LET tu == t
        dt == tu - lastUnix
        decayed ==
            IF Lifetime < dt THEN transient
            ELSE IF NLess(One, transient) /\ dt > 0
                 THEN FMul(transient, decayFactor(dt))
                 ELSE transient
    IN  /\ persistent' = U32Add(persistent, p)
        /\ IF tr # Zero
           THEN /\ transient' = NAdd(decayed, Float64(tr))
                /\ lastUnix' = tu
           ELSE UNCHANGED <<transient, lastUnix>>

\* increase(persistent, transient, t): the assignments to the three fields.
increase(p, tr, t) ==
    LET tu == t
        dt == tu - lastUnix
        decayed ==
            IF Lifetime < dt THEN Zero
            ELSE IF NLess(One, transient) /\ dt > 0
                 THEN FMul(transient, decayFactor(dt))
                 ELSE transient
    IN  /\ persistent' = U32Add(persistent, p)
        /\ IF tr # Zero
           THEN /\ transient' = NAdd(decayed, Float64(tr))
                /\ lastUnix' = tu
           ELSE UNCHANGED <<transient, lastUnix>>

\* The value increase returns, from the fields it has just written.
increaseResult == U32Add(persistent', Uint32(transient'))

\* Mutant of Reset: the persistent part is not cleared.
Reset_KeepsPersistent ==
    /\ persistent' = persistent
    /\ transient' = Zero
    /\ lastUnix' = 0

\* Reset(): the three assignments made under the mutex.
Reset ==
    /\ persistent' = Zero
    /\ transient' = Zero
    /\ lastUnix' = 0

(***************************************************************************)
(* Spec: one caller, explicit times.                                       *)
(***************************************************************************)
\* The three fields of the score as they are now.
Fields ==
    [lastUnix |-> lastUnix, transient |-> transient, persistent |-> persistent]

\* last before any call.  pre holds the fields as the call found them, decay
\* the elapsed times the call passed to decayFactor.
NoCall ==
    [op |-> "none", p |-> Zero, tr |-> Zero, t |-> 0, r |-> Zero,
     pre |-> [lastUnix |-> 0, transient |-> Zero, persistent |-> Zero],
     decay |-> {}]

InitScore ==
    /\ lastUnix = 0
    /\ transient = Zero
    /\ persistent = Zero
    /\ conv \in {"wrap", "saturate"}

InitSeq ==
    /\ hist = <<>>
    /\ last = NoCall

InitLock ==
    /\ mtx = "unlocked"
    /\ pc = [g \in Goroutines |-> "idle"]
    /\ call = [g \in Goroutines |-> [op |-> "none", p |-> Zero, tr |-> Zero]]
    /\ caller = [g \in Goroutines |-> "none"]
    /\ ret = [g \in Goroutines |-> Zero]
    /\ started = 0

\* NewSigCache(maxEntries): an empty map and the capacity.
NewSigCache(n) ==
    /\ validSigs = <<>>
    /\ maxEntries = n

NoArgs == [sigHash |-> "none", sig |-> "none", pubKey |-> "none"]

NoEntry == [ok |-> FALSE, sig |-> "none", pubKey |-> "none"]

InitSigCallers ==
    /\ writer = "none"
    /\ readers = {}
    /\ spc = [g \in Goroutines |-> "idle"]
    /\ sarg = [g \in Goroutines |-> NoArgs]
    /\ entry = [g \in Goroutines |-> NoEntry]
    /\ sret = [g \in Goroutines |-> "none"]
    /\ lastAdd = [sigHash |-> "none", sig |-> "none", pubKey |-> "none",
                  evicted |-> "none"]

\* Spec and SpecLock: a score; the cache is not used.
Init ==
    /\ InitScore /\ InitSeq /\ InitLock
    /\ NewSigCache(0) /\ InitSigCallers

\* SpecSig: a cache of any capacity up to MaxCapacity; the score is not used.
InitSig ==
    /\ lastUnix = 0 /\ transient = Zero /\ persistent = Zero /\ conv = "wrap"
    /\ InitSeq /\ InitLock
    /\ \E n \in 0..MaxCapacity : NewSigCache(n)
    /\ InitSigCallers

SeqIncrease ==
    /\ Len(hist) < MaxCalls
    /\ \E d \in Deltas, o \in IncOffsets :
        LET t == lastUnix + o
        IN  /\ increase(d[1], d[2], t)
            /\ last' = [op |-> "increase", p |-> d[1], tr |-> d[2], t |-> t,
                        r |-> increaseResult, pre |-> Fields,
                        decay |-> IF increaseCallsDecay(d[2], t)
                                  THEN {t - lastUnix} ELSE {}]
            /\ hist' = Append(hist, [op |-> "increase", p |-> d[1],
                                     tr |-> d[2], t |-> t])
    /\ UNCHANGED <<conv, lockVars, sigVars>>

\* Mutant of SeqInt: the read stores the decayed transient and its time.
SeqInt_WritesDecay ==
    /\ \E o \in ReadOffsets :
        LET t == lastUnix + o
        IN  /\ last' = [op |-> "int", p |-> Zero, tr |-> Zero, t |-> t,
                        r |-> int(t), pre |-> Fields,
                        decay |-> IF intCallsDecay(t)
                                  THEN {t - lastUnix} ELSE {}]
            /\ IF intCallsDecay(t)
               THEN /\ transient' = FMul(transient, decayFactor(t - lastUnix))
                    /\ lastUnix' = t
               ELSE UNCHANGED <<transient, lastUnix>>
    /\ UNCHANGED <<persistent, conv, hist, lockVars, sigVars>>

SeqInt ==
    /\ \E o \in ReadOffsets :
        LET t == lastUnix + o
        IN  last' = [op |-> "int", p |-> Zero, tr |-> Zero, t |-> t,
                     r |-> int(t), pre |-> Fields,
                     decay |-> IF intCallsDecay(t)
                               THEN {t - lastUnix} ELSE {}]
    /\ UNCHANGED <<scoreVars, conv, hist, lockVars, sigVars>>

SeqReset ==
    /\ Len(hist) < MaxCalls
    /\ Reset
    /\ last' = [NoCall EXCEPT !.op = "Reset", !.pre = Fields]
    /\ hist' = Append(hist, [op |-> "Reset", p |-> Zero, tr |-> Zero, t |-> 0])
    /\ UNCHANGED <<conv, lockVars, sigVars>>

Next == SeqIncrease \/ SeqInt \/ SeqReset

Spec == Init /\ [][Next]_vars


(***************************************************************************)
(* SpecLock: goroutines calling the exported methods of one score.  Each   *)
(* method locks s.mtx, runs its body and unlocks; String's body is the     *)
(* evaluation of Sprintf's arguments, the last of which is a call of       *)
(* s.Int().                                                                *)
(***************************************************************************)
Exported ==
    {[op |-> "Int", p |-> Zero, tr |-> Zero],
     [op |-> "Reset", p |-> Zero, tr |-> Zero],
     [op |-> "String", p |-> Zero, tr |-> Zero]}
    \cup {[op |-> "Increase", p |-> d[1], tr |-> d[2]] : d \in Deltas}

AtLock == {"Int.Lock", "Increase.Lock", "Reset.Lock", "String.Lock"}

AtUnlock == {"Int.Unlock", "Increase.Unlock", "Reset.Unlock", "String.Unlock"}

\* A goroutine calls an exported method and arrives at its s.mtx.Lock().
Call(g) ==
    /\ pc[g] = "idle"
    /\ started < MaxStarted
    /\ \E c \in Exported :
        /\ call' = [call EXCEPT ![g] = c]
        /\ pc' = [pc EXCEPT ![g] = c.op \o ".Lock"]
    /\ started' = started + 1
    /\ UNCHANGED <<sigVars, scoreVars, conv, seqVars, mtx, caller, ret>>

\* Mutant of Lock: the goroutine goes on without waiting for the mutex.
Lock_NoWait(g) ==
    /\ pc[g] \in AtLock
    /\ mtx' = g
    /\ pc' = [pc EXCEPT ![g] =
                CASE pc[g] = "Int.Lock" -> "Int.int"
                  [] pc[g] = "Increase.Lock" -> "Increase.increase"
                  [] pc[g] = "Reset.Lock" -> "Reset.assign"
                  [] pc[g] = "String.Lock" -> "String.Sprintf"]
    /\ UNCHANGED <<sigVars, scoreVars, conv, seqVars, call, caller, ret, started>>

\* s.mtx.Lock(): sync.Mutex is not reentrant; Lock waits until the mutex is
\* unlocked, whoever locked it.
Lock(g) ==
    /\ pc[g] \in AtLock
    /\ mtx = "unlocked"
    /\ mtx' = g
    /\ pc' = [pc EXCEPT ![g] =
                CASE pc[g] = "Int.Lock" -> "Int.int"
                  [] pc[g] = "Increase.Lock" -> "Increase.increase"
                  [] pc[g] = "Reset.Lock" -> "Reset.assign"
                  [] pc[g] = "String.Lock" -> "String.Sprintf"]
    /\ UNCHANGED <<sigVars, scoreVars, conv, seqVars, call, caller, ret, started>>

\* Int: r := s.int(time.Now())
IntBody(g) ==
    /\ pc[g] = "Int.int"
    /\ \E o \in NowOffsets : ret' = [ret EXCEPT ![g] = int(lastUnix + o)]
    /\ pc' = [pc EXCEPT ![g] = "Int.Unlock"]
    /\ UNCHANGED <<sigVars, scoreVars, conv, seqVars, mtx, call, caller, started>>

\* Increase: r := s.increase(persistent, transient, time.Now())
IncreaseBody(g) ==
    /\ pc[g] = "Increase.increase"
    /\ \E o \in NowOffsets : increase(call[g].p, call[g].tr, lastUnix + o)
    /\ ret' = [ret EXCEPT ![g] = increaseResult]
    /\ pc' = [pc EXCEPT ![g] = "Increase.Unlock"]
    /\ UNCHANGED <<sigVars, conv, seqVars, mtx, call, caller, started>>

\* Reset: the three assignments.
ResetBody(g) ==
    /\ pc[g] = "Reset.assign"
    /\ Reset
    /\ pc' = [pc EXCEPT ![g] = "Reset.Unlock"]
    /\ UNCHANGED <<sigVars, conv, seqVars, mtx, call, caller, ret, started>>

\* String: the arguments of Sprintf are evaluated with s.mtx held; the last
\* one calls s.Int(), which starts with s.mtx.Lock().
StringSprintf(g) ==
    /\ pc[g] = "String.Sprintf"
    /\ caller' = [caller EXCEPT ![g] = "String"]
    /\ pc' = [pc EXCEPT ![g] = "Int.Lock"]
    /\ UNCHANGED <<sigVars, scoreVars, conv, seqVars, mtx, call, ret, started>>

\* s.mtx.Unlock() and the return: to String's own Unlock when Int was called
\* from Sprintf, to the caller otherwise.
Unlock(g) ==
    /\ pc[g] \in AtUnlock
    /\ mtx' = "unlocked"
    /\ IF pc[g] = "Int.Unlock" /\ caller[g] = "String"
       THEN /\ pc' = [pc EXCEPT ![g] = "String.Unlock"]
            /\ caller' = [caller EXCEPT ![g] = "none"]
       ELSE /\ pc' = [pc EXCEPT ![g] = "idle"]
            /\ UNCHANGED caller
    /\ UNCHANGED <<sigVars, scoreVars, conv, seqVars, call, ret, started>>

NextLock ==
    \E g \in Goroutines :
        \/ Call(g)
        \/ Lock(g)
        \/ IntBody(g)
        \/ IncreaseBody(g)
        \/ ResetBody(g)
        \/ StringSprintf(g)
        \/ Unlock(g)

SpecLock == Init /\ [][NextLock]_vars

(***************************************************************************)
(* SpecSig: goroutines calling Exists and Add on one SigCache.             *)
(***************************************************************************)
\* Every pair is used under the hashes of SigHashes, so that one hash can hold
\* different entries; a third hash, used with one pair, lets an Add meet a
\* cache of capacity two that is full of other hashes.
SigArgs ==
    {[sigHash |-> h, sig |-> e.sig, pubKey |-> e.pubKey] :
        h \in SigHashes, e \in SigKeyPairs}
    \cup {[sigHash |-> "h3", sig |-> "s1", pubKey |-> "k1"]}

\* The map with key h removed: delete(s.validSigs, h).
Delete(m, h) == [x \in (DOMAIN m) \ {h} |-> m[x]]

\* Mutant of Store: a key already present keeps its entry.
Store_KeepsOld(m, h, e) ==
    [x \in (DOMAIN m) \cup {h} |-> IF x \in DOMAIN m THEN m[x] ELSE e]

\* The map with m[h] = e: s.validSigs[h] = e.
Store(m, h, e) == [x \in (DOMAIN m) \cup {h} |-> IF x = h THEN e ELSE m[x]]

\* A goroutine calls Exists or Add with some arguments.
SigCall(g) ==
    /\ spc[g] = "idle"
    /\ \E a \in SigArgs, m \in {"Exists.RLock", "Add.Lock"} :
        /\ sarg' = [sarg EXCEPT ![g] = a]
        /\ spc' = [spc EXCEPT ![g] = m]
    /\ sret' = [sret EXCEPT ![g] = "none"]
    /\ entry' = [entry EXCEPT ![g] = NoEntry]
    /\ UNCHANGED <<validSigs, maxEntries, writer, readers, lastAdd>>
    /\ UNCHANGED <<scoreVars, conv, seqVars, lockVars>>

\* Exists: s.RLock()
ExistsRLock(g) ==
    /\ spc[g] = "Exists.RLock"
    /\ writer = "none"
    /\ readers' = readers \cup {g}
    /\ spc' = [spc EXCEPT ![g] = "Exists.lookup"]
    /\ UNCHANGED <<validSigs, maxEntries, writer, sarg, entry, sret, lastAdd>>
    /\ UNCHANGED <<scoreVars, conv, seqVars, lockVars>>

\* Exists: entry, ok := s.validSigs[sigHash]
ExistsLookup(g) ==
    /\ spc[g] = "Exists.lookup"
    /\ entry' = [entry EXCEPT ![g] =
                    IF sarg[g].sigHash \in DOMAIN validSigs
                    THEN [ok |-> TRUE,
                          sig |-> validSigs[sarg[g].sigHash].sig,
                          pubKey |-> validSigs[sarg[g].sigHash].pubKey]
                    ELSE NoEntry]
    /\ spc' = [spc EXCEPT ![g] = "Exists.RUnlock"]
    /\ UNCHANGED <<validSigs, maxEntries, writer, readers, sarg, sret, lastAdd>>
    /\ UNCHANGED <<scoreVars, conv, seqVars, lockVars>>

\* Mutant of ExistsResult: the signature is not compared.
ExistsResult_NoSigCheck(e, a) == e.ok /\ e.pubKey = a.pubKey

\* Mutant of ExistsResult: the public key is not compared.
ExistsResult_NoKeyCheck(e, a) == e.ok /\ e.sig = a.sig

\* Exists' result: ok && entry.pubKey.IsEqual(pubKey) && entry.sig.IsEqual(sig)
ExistsResult(e, a) == e.ok /\ e.pubKey = a.pubKey /\ e.sig = a.sig

\* Exists: s.RUnlock() and the return, after which the locals entry, ok are
\* gone.
ExistsRUnlock(g) ==
    /\ spc[g] = "Exists.RUnlock"
    /\ readers' = readers \ {g}
    /\ sret' = [sret EXCEPT ![g] =
                 IF ExistsResult(entry[g], sarg[g]) THEN "true" ELSE "false"]
    /\ entry' = [entry EXCEPT ![g] = NoEntry]
    /\ spc' = [spc EXCEPT ![g] = "idle"]
    /\ UNCHANGED <<validSigs, maxEntries, writer, sarg, lastAdd>>
    /\ UNCHANGED <<scoreVars, conv, seqVars, lockVars>>

\* Mutant of AddLock: the write lock is taken while readers hold the lock.
AddLock_IgnoresReaders(g) ==
    /\ spc[g] = "Add.Lock"
    /\ writer = "none"
    /\ writer' = g
    /\ spc' = [spc EXCEPT ![g] = "Add.insert"]
    /\ UNCHANGED <<validSigs, maxEntries, readers, sarg, entry, sret, lastAdd>>
    /\ UNCHANGED <<scoreVars, conv, seqVars, lockVars>>

\* Add: s.Lock()
AddLock(g) ==
    /\ spc[g] = "Add.Lock"
    /\ writer = "none"
    /\ readers = {}
    /\ writer' = g
    /\ spc' = [spc EXCEPT ![g] = "Add.insert"]
    /\ UNCHANGED <<validSigs, maxEntries, readers, sarg, entry, sret, lastAdd>>
    /\ UNCHANGED <<scoreVars, conv, seqVars, lockVars>>

\* Mutant of AddEffect: a full cache is not made room in.
AddEffect_NoEviction(a, victim) ==
    /\ validSigs' = Store(validSigs, a.sigHash,
                          [sig |-> a.sig, pubKey |-> a.pubKey])
    /\ lastAdd' = [sigHash |-> a.sigHash, sig |-> a.sig, pubKey |-> a.pubKey,
                   evicted |-> "none"]

\* Mutant of AddEffect: a cache of capacity zero stores the entry.
AddEffect_NoZeroCheck(a, victim) ==
    IF Cardinality(DOMAIN validSigs) + 1 > maxEntries /\ victim # "none"
    THEN /\ validSigs' = Store(Delete(validSigs, victim), a.sigHash,
                               [sig |-> a.sig, pubKey |-> a.pubKey])
         /\ lastAdd' = [sigHash |-> a.sigHash, sig |-> a.sig,
                        pubKey |-> a.pubKey, evicted |-> victim]
    ELSE /\ validSigs' = Store(validSigs, a.sigHash,
                               [sig |-> a.sig, pubKey |-> a.pubKey])
         /\ lastAdd' = [sigHash |-> a.sigHash, sig |-> a.sig,
                        pubKey |-> a.pubKey, evicted |-> "none"]

\* Mutant of AddEffect: a full cache is emptied to make room.
AddEffect_EvictsAll(a, victim) ==
    IF maxEntries <= 0
    THEN /\ UNCHANGED validSigs
         /\ lastAdd' = [sigHash |-> a.sigHash, sig |-> a.sig,
                        pubKey |-> a.pubKey, evicted |-> "none"]
    ELSE IF Cardinality(DOMAIN validSigs) + 1 > maxEntries /\ victim # "none"
    THEN /\ validSigs' = Store(<<>>, a.sigHash,
                               [sig |-> a.sig, pubKey |-> a.pubKey])
         /\ lastAdd' = [sigHash |-> a.sigHash, sig |-> a.sig,
                        pubKey |-> a.pubKey, evicted |-> victim]
    ELSE /\ validSigs' = Store(validSigs, a.sigHash,
                               [sig |-> a.sig, pubKey |-> a.pubKey])
         /\ lastAdd' = [sigHash |-> a.sigHash, sig |-> a.sig,
                        pubKey |-> a.pubKey, evicted |-> "none"]

\* Add's body under the write lock.  victim is the key the range loop over
\* the map yields first ("none" for an empty map).
AddEffect(a, victim) ==
    IF maxEntries <= 0
    THEN /\ UNCHANGED validSigs
         /\ lastAdd' = [sigHash |-> a.sigHash, sig |-> a.sig,
                        pubKey |-> a.pubKey, evicted |-> "none"]
    ELSE IF Cardinality(DOMAIN validSigs) + 1 > maxEntries /\ victim # "none"
    THEN /\ validSigs' = Store(Delete(validSigs, victim), a.sigHash,
                               [sig |-> a.sig, pubKey |-> a.pubKey])
         /\ lastAdd' = [sigHash |-> a.sigHash, sig |-> a.sig,
                        pubKey |-> a.pubKey, evicted |-> victim]
    ELSE /\ validSigs' = Store(validSigs, a.sigHash,
                               [sig |-> a.sig, pubKey |-> a.pubKey])
         /\ lastAdd' = [sigHash |-> a.sigHash, sig |-> a.sig,
                        pubKey |-> a.pubKey, evicted |-> "none"]

\* Mutant of AddInsert: the range loop always yields the same key first.
AddInsert_FixedVictim(g) ==
    /\ spc[g] = "Add.insert"
    /\ \E victim \in (IF validSigs = <<>> THEN {"none"}
                       ELSE {CHOOSE h \in DOMAIN validSigs : TRUE}) :
        AddEffect(sarg[g], victim)
    /\ spc' = [spc EXCEPT ![g] = "Add.Unlock"]
    /\ UNCHANGED <<maxEntries, writer, readers, sarg, entry, sret>>
    /\ UNCHANGED <<scoreVars, conv, seqVars, lockVars>>

\* Add: the body.  Go's map iteration starts at a random key, so any resident
\* key may be the first one.
AddInsert(g) ==
    /\ spc[g] = "Add.insert"
    /\ \E victim \in (IF validSigs = <<>> THEN {"none"} ELSE DOMAIN validSigs) :
        AddEffect(sarg[g], victim)
    /\ spc' = [spc EXCEPT ![g] = "Add.Unlock"]
    /\ UNCHANGED <<maxEntries, writer, readers, sarg, entry, sret>>
    /\ UNCHANGED <<scoreVars, conv, seqVars, lockVars>>

\* Add: the deferred s.Unlock()
AddUnlock(g) ==
    /\ spc[g] = "Add.Unlock"
    /\ writer' = "none"
    /\ spc' = [spc EXCEPT ![g] = "idle"]
    /\ UNCHANGED <<validSigs, maxEntries, readers, sarg, entry, sret, lastAdd>>
    /\ UNCHANGED <<scoreVars, conv, seqVars, lockVars>>

NextSig ==
    \E g \in Goroutines :
        \/ SigCall(g)
        \/ ExistsRLock(g)
        \/ ExistsLookup(g)
        \/ ExistsRUnlock(g)
        \/ AddLock(g)
        \/ AddInsert(g)
        \/ AddUnlock(g)

SpecSig == InitSig /\ [][NextSig]_vars

(***************************************************************************)
(* Arithmetic used only to state properties.                               *)
(***************************************************************************)
RECURSIVE SubFrom(_, _, _, _)
SubFrom(a, b, i, c) ==
    IF i > Len(a) THEN <<>>
    ELSE LET s == a[i] - Digit(b, i) - c
         IN  <<s % Base>> \o SubFrom(a, b, i + 1, IF s < 0 THEN 1 ELSE 0)

\* a - b for a >= b.
NSub(a, b) == Norm(SubFrom(a, b, 1, 0))

\* (a - b) mod 2^32 for uint32 a, b.
U32Sub(a, b) ==
    IF NLeq(b, a) THEN NSub(a, b) ELSE NSub(NAdd(a, <<0, 0, 4>>), b)

\* a * 2^n
NShl(a, n) == NScale(ShiftDigits(a, n \div 15), 2^(n % 15))

RECURSIVE NPow(_, _)
NPow(a, e) ==
    IF e = 0 THEN <<1>>
    ELSE CHOOSE r \in { IF e % 2 = 0 THEN h2 ELSE NMul(h2, a) :
                            h2 \in { NMul(h, h) : h \in {NPow(a, e \div 2)} } } : TRUE

RECURSIVE Gcd(_, _)
Gcd(a, b) == IF b = 0 THEN a ELSE Gcd(b, a % b)

\* v = floor(tr * 2^(-dt/Halflife)), stated without the factor table: with
\* g = gcd(dt, Halflife) and e = Halflife/g,
\*     v^e * 2^(dt/g) <= tr^e < (v+1)^e * 2^(dt/g).
IsDecayedFloor(v, tr, dt) ==
    LET g == Gcd(dt, Halflife)
        e == Halflife \div g
        trE == NPow(tr, e)
    IN  /\ NLeq(NShl(NPow(v, e), dt \div g), trE)
        /\ NLess(trE, NShl(NPow(NAdd(v, <<1>>), e), dt \div g))

(***************************************************************************)
(* Properties of DynamicBanScore under Spec.                               *)
(***************************************************************************)
\* The score holds exactly what one increase wrote into a fresh score.
FreshIncrease == Len(hist) = 1 /\ hist[1].op = "increase"

\* C4: on a fresh score, after increase(p, tr, t0) with tr >= 1, a read at
\* t0 + dt with 0 <= dt <= Lifetime returns, in uint32 arithmetic, p plus
\* floor(tr * 2^(-dt/Halflife)); increase(100, 50) reads 125 after one
\* half-life and 100 after seven.
C4_DecayFromFresh ==
    (/\ FreshIncrease
     /\ hist[1].tr # Zero
     /\ last.op = "int"
     /\ last.t - hist[1].t \in 0..Lifetime)
    => LET dt == last.t - hist[1].t
           p == hist[1].p
           tr == hist[1].tr
       IN  /\ IsDecayedFloor(U32Sub(last.r, p), tr, dt)
           /\ (p = NatOf(100) /\ tr = NatOf(50) /\ dt = Halflife)
                  => last.r = NatOf(125)
           /\ (p = NatOf(100) /\ tr = NatOf(50) /\ dt = 7 * Halflife)
                  => last.r = NatOf(100)

C4_Witness ==
    /\ FreshIncrease
    /\ hist[1].p = NatOf(100) /\ hist[1].tr = NatOf(50)
    /\ last.op = "int"
    /\ last.t = hist[1].t + Halflife
    /\ last.r = NatOf(125)

\* C5: a read at dt = t - lastUnix returns the persistent part alone when
\* dt > Lifetime, dt < 0 or the stored transient is below 1, and still adds
\* the decayed transient (transient * 2^-30, truncated) at dt = Lifetime:
\* after increase(0, MaxUint32) on a fresh score it reads 3 at t0 + 1800 and
\* 0 at t0 + 1801.
C5_LifetimeBoundary ==
    last.op = "int"
    => LET dt == last.t - lastUnix
       IN  /\ (dt > Lifetime \/ dt < 0 \/ NLess(transient, One))
                  => last.r = persistent
           /\ (dt = Lifetime /\ ~NLess(transient, One))
                  => last.r = U32Add(persistent,
                                     Floor(NShr(transient, Lifetime \div Halflife)))
           /\ (FreshIncrease /\ hist[1].p = Zero /\ hist[1].tr = MaxUint32)
                  => /\ dt = Lifetime => last.r = NatOf(3)
                     /\ dt = Lifetime + 1 => last.r = Zero

C5_Witness ==
    /\ FreshIncrease
    /\ hist[1].p = Zero /\ hist[1].tr = MaxUint32
    /\ last.op = "int"
    /\ last.t = lastUnix + Lifetime
    /\ last.r = NatOf(3)

\* C6: after Reset the three fields are zero, whatever came before (another
\* Reset included), and a read of a score that was just reset or never
\* touched returns 0 at any time.
C6_ResetZeroes ==
    /\ last.op = "Reset"
           => persistent = Zero /\ transient = Zero /\ lastUnix = 0
    /\ (last.op = "int" /\ (hist = <<>> \/ hist[Len(hist)].op = "Reset"))
           => /\ last.r = Zero
              /\ persistent = Zero /\ transient = Zero /\ lastUnix = 0

C6_Witness ==
    /\ Len(hist) = 2
    /\ hist[1].op = "increase" /\ hist[1].p # Zero /\ hist[1].tr # Zero
    /\ hist[2].op = "Reset"
    /\ last.op = "int"
    /\ last.r = Zero

\* C8 as claimed: no increase call lowers the persistent component.  The
\* uint32 addition wraps, so this is violated.
C8_PersistentNeverDecreases ==
    [][(Len(hist') = Len(hist) + 1 /\ last'.op = "increase")
           => NLeq(persistent, persistent')]_vars

\* C9 as claimed: the value increase returns is the score a read at the same
\* time returns right after the call.  With a transient delta of zero
\* increase adds the stored transient undecayed, so this is violated.
C9_IncreaseReturnsScore ==
    last.op = "increase" => last.r = int(last.t)

\* The step is a read; its time and result are in last'.
ReadStep == hist' = hist /\ last'.op = "int"

\* C16: increase(p, 0, t) adds p to persistent and leaves transient and
\* lastUnix as they were; increase(p, tr, t) with tr > 0 leaves lastUnix = t.
C16_ZeroTransientFrame ==
    last.op = "increase"
    => /\ persistent = U32Add(last.pre.persistent, last.p)
       /\ last.tr = Zero
          => transient = last.pre.transient /\ lastUnix = last.pre.lastUnix
       /\ last.tr # Zero => lastUnix = last.t

\* An increase with tr = 0 at a time other than lastUnix, on a score whose
\* transient is not zero.
C16_Witness ==
    /\ last.op = "increase"
    /\ last.tr = Zero
    /\ last.p # Zero
    /\ last.t # lastUnix
    /\ transient # Zero

\* C17: increase(p, tr, t) with tr > 0 and t - lastUnix > Lifetime leaves
\* transient = tr exactly, and a read at t then returns persistent + tr (in
\* uint32); with 0 < t - lastUnix <= Lifetime and a stored transient above 1
\* it leaves transient * decayFactor(t - lastUnix) + tr.
C17_StaleTransientDiscarded ==
    (last.op = "increase" /\ last.tr # Zero)
    => LET dt == last.t - last.pre.lastUnix
       IN  /\ dt > Lifetime
              => /\ transient = Float64(last.tr)
                 /\ int(last.t) = U32Add(persistent, last.tr)
           /\ (0 < dt /\ dt <= Lifetime /\ NLess(One, last.pre.transient))
              => transient = NAdd(FMul(last.pre.transient, decayFactor(dt)),
                                  Float64(last.tr))

\* A second increase(100, 50), more than Lifetime after the first, left a
\* transient of 50.
C17_Witness ==
    /\ Len(hist) = 2
    /\ hist[1].op = "increase" /\ hist[1].tr = NatOf(50)
    /\ last.op = "increase" /\ last.tr = NatOf(50)
    /\ last.t = hist[1].t + Lifetime + 1
    /\ transient = Float64(NatOf(50))
    /\ last.r = NatOf(250)

\* C18: a read leaves persistent, transient and lastUnix as it found them,
\* and a second read at the same time returns the same value.
C18_ReadDoesNotMutate ==
    last.op = "int"
    => /\ Fields = last.pre
       /\ int(last.t) = last.r

\* A read that returned a decayed score; the stored transient is undecayed.
C18_Witness ==
    /\ last.op = "int"
    /\ last.t > lastUnix
    /\ ~NLess(transient, One)
    /\ last.r # persistent
    /\ last.r # U32Add(persistent, Uint32(transient))

\* C19: every elapsed time a read or an increase passes to decayFactor is
\* in 0..Lifetime, and is below precomputedLen exactly when it is an index
\* of precomputedFactor.  The times recorded are the ones used: the read
\* returns persistent plus the decayed transient when it made a call and
\* persistent alone when it made none, and the increase that made a call
\* left the decayed transient plus tr.
C19_DecayArgumentNotNegative ==
    /\ \A dt \in last.decay :
        /\ dt >= 0
        /\ dt <= Lifetime
        /\ dt < precomputedLen <=> dt \in DOMAIN precomputedFactor
        /\ dt = last.t - last.pre.lastUnix
        /\ last.op = "int"
           => last.r = U32Add(last.pre.persistent,
                              Uint32(FMul(last.pre.transient, decayFactor(dt))))
        /\ last.op = "increase"
           => transient = NAdd(FMul(last.pre.transient, decayFactor(dt)),
                               Float64(last.tr))
    /\ (last.op = "int" /\ last.decay = {}) => last.r = last.pre.persistent
    /\ (last.op = "increase" /\ last.decay = {})
       => \/ transient = last.pre.transient
          \/ transient = NAdd(last.pre.transient, Float64(last.tr))
          \/ transient = Float64(last.tr)

\* A read at a time before lastUnix of a score whose transient is at least
\* 1 made no call and returned the persistent part.
C19_Witness ==
    /\ last.op = "int"
    /\ last.t < lastUnix
    /\ ~NLess(transient, One)
    /\ last.decay = {}
    /\ last.r = persistent

\* C20 as claimed: of two reads at lastUnix <= t1 <= t2 with no increase or
\* Reset between them the second returns no more than the first, and no
\* less than persistent.  The sum persistent + uint32(...) wraps, so this is
\* violated.
C20_ReadsNonIncreasing ==
    [][(ReadStep /\ last.op = "int" /\ lastUnix <= last.t /\ last.t <= last'.t)
       => /\ NLeq(last'.r, last.r)
          /\ NLeq(persistent, last'.r)]_vars


(***************************************************************************)
(* Properties of DynamicBanScore under SpecLock.                           *)
(***************************************************************************)
\* A call in progress can take its next step: it is past its Lock, or the
\* mutex it waits for is unlocked.
CanStep(g) == pc[g] # "idle" /\ (pc[g] \in AtLock => mtx = "unlocked")

\* C7 as claimed: every exported call takes the mutex, completes and
\* releases it.  Stated for finite runs: whenever calls are in progress one
\* of them can take a step (only a call in progress ever unlocks the mutex,
\* so a state where none can is one where they all block forever), and the
\* mutex is unlocked whenever no call is in progress.  String calls Int with
\* the mutex held, so this is violated.
C7_EveryCallCompletes ==
    /\ (\E g \in Goroutines : pc[g] # "idle")
           => \E g \in Goroutines : CanStep(g)
    /\ (\A g \in Goroutines : pc[g] = "idle") => mtx = "unlocked"


\* Goroutine g is between a Lock of the mutex and the Unlock that follows.
InCriticalSection(g) ==
    \/ pc[g] \in {"Int.int", "Increase.increase", "Reset.assign",
                  "String.Sprintf"}
    \/ pc[g] \in AtUnlock
    \/ pc[g] = "Int.Lock" /\ caller[g] = "String"

\* C15: a goroutine is inside a critical section exactly while it holds the
\* mutex, so the bodies of Int, Increase and Reset run one at a time and a
\* read sees the three fields as completed calls left them; the body of
\* Increase(p, tr) adds p, modulo 2^32, to the persistent value the call
\* before it left; and only the bodies of Increase and Reset change a field.
C15_NoLostUpdate ==
    /\ [](\A g \in Goroutines : InCriticalSection(g) <=> mtx = g)
    /\ [][\A g \in Goroutines :
            /\ (pc[g] = "Increase.increase" /\ pc'[g] = "Increase.Unlock")
               => persistent' = U32Add(persistent, call[g].p)
            /\ (pc'[g] # pc[g] /\ pc[g] \notin {"Increase.increase",
                                               "Reset.assign"})
               => UNCHANGED scoreVars]_vars

\* Two Increase(100, 0) bodies have run, one in each goroutine, while a
\* third Increase waits for the mutex.
C15_Witness ==
    \E g1 \in Goroutines, g2 \in Goroutines :
        /\ g1 # g2
        /\ pc[g1] = "Increase.Unlock" /\ mtx = g1
        /\ pc[g2] = "Increase.Lock"
        /\ call[g1].p = NatOf(100) /\ call[g1].tr = Zero
        /\ call[g2].tr = Zero
        /\ ret[g2] = NatOf(100)
        /\ persistent = NatOf(200)


(***************************************************************************)
(* Properties of SigCache under SpecSig.                                   *)
(***************************************************************************)
\* The entry resident under a.sigHash holds exactly a.sig and a.pubKey.
Resident(a) ==
    /\ a.sigHash \in DOMAIN validSigs
    /\ validSigs[a.sigHash] = [sig |-> a.sig, pubKey |-> a.pubKey]

\* The step in which goroutine g's Exists releases the read lock and returns.
ExistsReturns(g) == spc[g] = "Exists.RUnlock" /\ spc'[g] = "idle"

\* The Add that ran last had the arguments a.
LastAddWas(a) ==
    /\ lastAdd.sigHash = a.sigHash
    /\ lastAdd.sig = a.sig
    /\ lastAdd.pubKey = a.pubKey

\* C1: the number of resident entries never exceeds the capacity the cache
\* was built with, whatever Add calls the goroutines make.
C1_NeverOverCapacity == Cardinality(DOMAIN validSigs) <= maxEntries

C1_Witness ==
    /\ maxEntries >= 1
    /\ lastAdd.evicted # "none"
    /\ lastAdd.evicted # lastAdd.sigHash
    /\ Cardinality(DOMAIN validSigs) = maxEntries

\* C2: Exists(d, s, k) returns true exactly when, while it holds the read
\* lock, the entry resident under d holds s and k (so a resident entry with
\* another signature or key, or no entry, gives false); and an entry comes
\* to be resident under d only by an Add running with d and that entry.
C2_ExistsOnlyOnFullMatch ==
    [][/\ \A g \in Goroutines :
            ExistsReturns(g) => (sret'[g] = "true" <=> Resident(sarg[g]))
       /\ \A h \in DOMAIN validSigs' :
            (h \notin DOMAIN validSigs \/ validSigs'[h] # validSigs[h])
            => \E g \in Goroutines :
                /\ spc[g] = "Add.insert"
                /\ sarg[g].sigHash = h
                /\ validSigs'[h] = [sig |-> sarg[g].sig,
                                    pubKey |-> sarg[g].pubKey]]_vars

\* An Exists found an entry under its hash with another signature and
\* returned false.
C2_Witness ==
    \E g \in Goroutines :
        /\ spc[g] = "idle"
        /\ sret[g] = "false"
        /\ sarg[g].sigHash \in DOMAIN validSigs
        /\ validSigs[sarg[g].sigHash].sig # sarg[g].sig
        /\ validSigs[sarg[g].sigHash].pubKey = sarg[g].pubKey

\* C3: with capacity >= 1, an Exists(d, s, k) whose lookup runs while
\* Add(d, s, k) is the Add that ran last returns true.
C3_ExistsAfterAdd ==
    [][\A g \in Goroutines :
        (ExistsReturns(g) /\ maxEntries >= 1 /\ LastAddWas(sarg[g]))
        => sret'[g] = "true"]_vars

\* An Add that replaced the entry under its own hash in a full cache of
\* capacity two, followed by an Exists that returned true.
C3_Witness ==
    \E g \in Goroutines :
        /\ spc[g] = "idle"
        /\ sret[g] = "true"
        /\ LastAddWas(sarg[g])
        /\ maxEntries = 2
        /\ Cardinality(DOMAIN validSigs) = 2

\* C10: with capacity zero the cache stays empty and no Exists returns true.
C10_ZeroCapacityNoOp ==
    maxEntries = 0
    => /\ validSigs = <<>>
       /\ \A g \in Goroutines : sret[g] # "true"

C10_Witness ==
    /\ maxEntries = 0
    /\ lastAdd.sigHash # "none"
    /\ validSigs = <<>>
    /\ \E g \in Goroutines :
        spc[g] = "idle" /\ sret[g] = "false" /\ LastAddWas(sarg[g])

\* The step in which goroutine g's Add runs its body under the write lock.
AddRuns(g) == spc[g] = "Add.insert" /\ spc'[g] = "Add.Unlock"

\* The entries under the hashes hs are the same before and after the step.
SameEntries(hs) ==
    \A h \in hs : h \in DOMAIN validSigs' /\ validSigs'[h] = validSigs[h]

\* C11: with capacity >= 1, an Add of a hash that is not resident into a
\* cache holding exactly capacity entries removes exactly one resident
\* entry, leaves the others as they were and stores the new entry, so the
\* cache again holds exactly capacity entries.
C11_OverflowEvictsExactlyOne ==
    [][\A g \in Goroutines :
        (/\ AddRuns(g)
         /\ maxEntries >= 1
         /\ sarg[g].sigHash \notin DOMAIN validSigs
         /\ Cardinality(DOMAIN validSigs) = maxEntries)
        => /\ Cardinality((DOMAIN validSigs) \ (DOMAIN validSigs')) = 1
           /\ (DOMAIN validSigs') \ (DOMAIN validSigs) = {sarg[g].sigHash}
           /\ SameEntries((DOMAIN validSigs) \cap (DOMAIN validSigs'))
           /\ Cardinality(DOMAIN validSigs') = maxEntries
           /\ validSigs'[sarg[g].sigHash] =
                  [sig |-> sarg[g].sig, pubKey |-> sarg[g].pubKey]]_vars

\* The Add that ran last met a full cache of capacity two that did not hold
\* its hash: it evicted one of the two entries and kept the other.
C11_Witness ==
    /\ maxEntries = 2
    /\ lastAdd.evicted \notin {"none", lastAdd.sigHash}
    /\ lastAdd.evicted \notin DOMAIN validSigs
    /\ lastAdd.sigHash \in DOMAIN validSigs
    /\ Cardinality(DOMAIN validSigs) = 2

\* C12 as claimed: an Add that finds the cache below capacity, or its own
\* hash resident, leaves every entry under another hash in place.  Add
\* evicts whenever the cache is full, also when it only overwrites, so this
\* is violated.
C12_NoEvictionWithoutNeed ==
    [][\A g \in Goroutines :
        (/\ AddRuns(g)
         /\ \/ Cardinality(DOMAIN validSigs) < maxEntries
            \/ sarg[g].sigHash \in DOMAIN validSigs)
        => SameEntries((DOMAIN validSigs) \ {sarg[g].sigHash})]_vars

\* C13: with capacity >= 1 an Add stores its entry under its hash, replacing
\* the entry that was there, and an Exists for the hash of the Add that ran
\* last returns true exactly for that Add's signature and key.
C13_LaterAddReplaces ==
    [][\A g \in Goroutines :
        /\ (AddRuns(g) /\ maxEntries >= 1)
           => validSigs'[sarg[g].sigHash] =
                  [sig |-> sarg[g].sig, pubKey |-> sarg[g].pubKey]
        /\ (/\ ExistsReturns(g)
            /\ maxEntries >= 1
            /\ lastAdd.sigHash = sarg[g].sigHash)
           => (sret'[g] = "true" <=> LastAddWas(sarg[g]))]_vars

\* One Exists found (d, s1, k1) resident, an Add then stored another entry
\* under d, and the other goroutine's Exists(d, s1, k1) returned false.
C13_Witness ==
    \E g1 \in Goroutines, g2 \in Goroutines :
        /\ g1 # g2
        /\ spc[g1] = "idle" /\ spc[g2] = "idle"
        /\ sarg[g1] = sarg[g2]
        /\ sret[g1] = "true"
        /\ sret[g2] = "false"
        /\ maxEntries >= 1
        /\ lastAdd.sigHash = sarg[g1].sigHash
        /\ ~LastAddWas(sarg[g1])
        /\ validSigs[lastAdd.sigHash] =
               [sig |-> lastAdd.sig, pubKey |-> lastAdd.pubKey]

\* C14: a goroutine is in Add's critical section exactly while it holds the
\* write lock, so at most one is; a goroutine is between Exists' RLock and
\* RUnlock exactly while it holds the read lock; and while the write lock is
\* held no goroutine holds the read lock.  The lookup is one step taken
\* with the read lock held, so it sees the map before or after an Add.
C14_WriterExcludes ==
    /\ \A g \in Goroutines :
        /\ spc[g] \in {"Add.insert", "Add.Unlock"} <=> writer = g
        /\ spc[g] \in {"Exists.lookup", "Exists.RUnlock"} <=> g \in readers
    /\ writer # "none" => readers = {}

\* An Add holds the write lock while the other goroutine waits at Exists'
\* RLock.
C14_Witness ==
    /\ writer # "none"
    /\ \E g \in Goroutines : g # writer /\ spc[g] = "Exists.RLock"

\* The hashes the callers use.
AllHashes == {a.sigHash : a \in SigArgs}

\* C21: when an Add with capacity >= 1 is about to run its body on a full
\* cache, the hashes its body can evict are exactly the hashes resident
\* then, each of them possible whatever the arguments; and no run of the
\* body leaves the cache without the entry being added.
C21_AnyResidentMayBeEvicted ==
    \A g \in Goroutines :
        (spc[g] = "Add.insert" /\ maxEntries >= 1)
        => /\ Cardinality(DOMAIN validSigs) + 1 > maxEntries
              => \A h \in AllHashes :
                    ENABLED (AddInsert(g) /\ lastAdd'.evicted = h)
                    <=> h \in DOMAIN validSigs
           /\ ~ENABLED (/\ AddInsert(g)
                        /\ \/ sarg[g].sigHash \notin DOMAIN validSigs'
                           \/ validSigs'[sarg[g].sigHash] #
                                  [sig |-> sarg[g].sig,
                                   pubKey |-> sarg[g].pubKey])

\* Add(h3, ...) met a cache of capacity two holding h1 and h2 and evicted
\* h2, the other possible victim being h1.
C21_Witness ==
    /\ maxEntries = 2
    /\ lastAdd.sigHash = "h3"
    /\ lastAdd.evicted = "h2"
    /\ DOMAIN validSigs = {"h1", "h3"}

=============================================================================
